---- MODULE Spec2Model ----
(***************************************************************************)
(* A model of the Me TV front-end control coordinator                      *)
(* (src/src/control_window_button.rs): the toggle button that creates and  *)
(* releases the playback window, the three synchronised channel selectors, *)
(* the keystroke router and the timed numeric channel entry.  Everything   *)
(* runs on the single GTK event loop, so every handler is one atomic       *)
(* action; a callback that a handler triggers synchronously (the "changed" *)
(* signal of a selector) is part of that action.  A Rust panic ends the    *)
(* process: panicked becomes TRUE and no handler runs any more.            *)
(* PipelineSpec is the other half of the program: the three worker threads *)
(* that main (src/src/main.rs) spawns and joins by two channels.           *)
(***************************************************************************)
EXTENDS Integers, Sequences, FiniteSets, TLC

\* ---------------------------------------------------------------- bounds
\* Longest channel list the loader delivers; channel names are 1..MaxChannels.
MaxChannels == 2
\* Most 3-second timers pending at once.
MaxTimers == 3
\* The upper end of the volume button's range, in step increments.
MaxVolume == 1
\* Most hotplug events the watcher emits.
MaxEvents == 4

\* ------------------------------------------------------ program constants
\* let max_length = 3: the entry's maximum length.
max_length == 3
\* Option::None of get_active(): GTK's "no active row".
NoActive == -1
\* Option::None of get_channel_name_of_logical_channel_number.
NoName == -1
\* Err of str::parse::<u16>.
ParseErr == -1
\* u16::MAX + 1.
U16Range == 65536
\* The one row of the selector model while no channel list is loaded.
NoChannelsRow == 0

\* adjustment.get_lower() of the volume button, in step increments.
volume_lower == 0
\* adjustment.get_step_increment(), the unit the volume is counted in.
step_increment == 1

Names == 1 .. MaxChannels
\* The digit keys that are pressed: KEY_NUMERIC_0 and KEY_NUMERIC_1.
Digits == {0, 1}
\* tk.value: 0 a release, 1 a press, 2 an auto-repeat.
KeyValues == {0, 1, 2}

\* ------------------------------------------------------------------ state
VARIABLES
    loaded,            \* control_window.is_channels_store_loaded()
    channels,          \* control_window.channels_data_sorter: the names, sorted
    frontend_button,   \* the toggle's active state
    channel_selector,  \* active index of the coordinator's selector
    frontend_window,   \* RefCell<Option<Rc<FrontendWindow>>>
    entry_text,        \* channel_number_entry text: a sequence of digits
    entry_progress,    \* its progress fraction, in units of 1/max_length
    dialog_visible,    \* channel_number_dialog shown
    timers,            \* pending timeout_add_seconds_local closures, oldest first
    live,              \* FrontendWindow objects constructed and not yet stopped
    panicked,          \* a panic!/unwrap failure has ended the process
    last,              \* what the handler that ran last did (observation only)
    to_fem,            \* channel::<inotify_daemon::Message>(): messages in flight
    to_cw,             \* channel::<frontend_manager::Message>(): messages in flight
    events,            \* number of hotplug events the watcher has emitted
    fem_msg,           \* the message frontend_manager::run holds after recv()
    frontends,         \* the front ends the inventory manager knows
    sent,              \* the messages the inventory manager has sent, in order
    received           \* the messages message_listener has received, in order

\* The state of the coordinator, owned by the GTK thread.
coordinator == << loaded, channels, frontend_button, channel_selector,
                  frontend_window, entry_text, entry_progress, dialog_visible,
                  timers, live, panicked, last >>

\* The state of the two channels and of the three worker threads.
pipeline == << to_fem, to_cw, events, fem_msg, frontends, sent, received >>

vars == << coordinator, pipeline >>

\* frontend_window = None.  The fields of a linked window are the window's
\* selector, its fullscreen selector, its engine's state and the value of its
\* volume button.
NoWindow == [some |-> FALSE, channel_selector |-> NoActive,
             fullscreen_channel_selector |-> NoActive,
             playing |-> FALSE, mrl |-> << >>, title |-> << >>,
             volume |-> volume_lower]

\* What a handler did, reset at the start of every handler.
\*   error    the error dialog it displayed ("" for none)
\*   sci      the argument of the set_channel_index call that returned last
\*   sci_ok   every set_channel_index(i) call left all selectors at i on return
\*   commit   "" no resolve-and-commit, else its trigger: "length" or "timeout"
\*   text     the digits handed to resolve-and-commit
\*   name     the channel name a commit resolved, NoName when unmapped
\*   stale    a timer fired that had seen a digit arrive after it was armed
\*   armed    a timer was armed
\*   persisted the channel name given to preferences::set_last_channel last
\*   created  a FrontendWindow was constructed
\*   released a FrontendWindow was stopped and its reference cleared
\*   fatal    the message of the panic! that ended the process ("" for none)
\*   occ      the argument of the on_channel_changed call that was entered last
\*   rewritten a selector was given a new active row twice
\*   tuned_playing  with the toggle active, set_mrl reached a playing engine
\*   key      the key code whose press process_targetted_keystroke acted on
\*   ignored  process_targetted_keystroke dropped the keystroke
NoObs == [error |-> "", sci |-> NoActive, sci_ok |-> TRUE,
          commit |-> "", text |-> << >>, name |-> NoName,
          stale |-> FALSE, armed |-> FALSE,
          persisted |-> NoName, created |-> FALSE, released |-> FALSE,
          fatal |-> "", occ |-> NoActive, rewritten |-> FALSE,
          tuned_playing |-> FALSE, key |-> "", ignored |-> FALSE]

\* A handler works on the record of the whole program state; writes and notifs
\* count the set_active calls and the "changed" signals of the handler so far,
\* written holds the selectors it has given a new active row.
Cur == [loaded |-> loaded, channels |-> channels,
        frontend_button |-> frontend_button,
        channel_selector |-> channel_selector,
        frontend_window |-> frontend_window,
        entry_text |-> entry_text, entry_progress |-> entry_progress,
        dialog_visible |-> dialog_visible, timers |-> timers,
        live |-> live, panicked |-> panicked, last |-> NoObs,
        writes |-> 0, notifs |-> 0, written |-> {}]

Store(w) ==
    /\ loaded' = w.loaded
    /\ channels' = w.channels
    /\ frontend_button' = w.frontend_button
    /\ channel_selector' = w.channel_selector
    /\ frontend_window' = w.frontend_window
    /\ entry_text' = w.entry_text
    /\ entry_progress' = w.entry_progress
    /\ dialog_visible' = w.dialog_visible
    /\ timers' = w.timers
    /\ live' = w.live
    /\ panicked' = w.panicked
    /\ last' = w.last
    /\ UNCHANGED pipeline

\* panic!, and unwrap() of None or Err: the process ends where it stands.
Panic(w) == [w EXCEPT !.panicked = TRUE]

\* ------------------------------------------------- external collaborators
\* The channel lists the loader can deliver: name-sorted, no name twice.
RECURSIVE SortedSeq(_)
SortedSeq(S) ==
    IF S = {} THEN << >>
    ELSE LET m == CHOOSE x \in S : \A y \in S : x <= y
         IN << m >> \o SortedSeq(S \ {m})

ChannelLists == { SortedSeq(S) : S \in (SUBSET Names) \ {{}} }

\* The logical channel number each channel is broadcast with (0: none).
logical_channel_number(name) ==
    CASE name = 1 -> 10
      [] name = 2 -> 1
      [] name = 3 -> 11
      [] OTHER -> 0

\* channels_data::get_channel_name_of_logical_channel_number: the channel of
\* the loaded channels file that carries this number, if any.
get_channel_name_of_logical_channel_number(w, channel_number) ==
    LET found == { i \in 1 .. Len(w.channels) :
                     /\ w.loaded
                     /\ channel_number > 0
                     /\ logical_channel_number(w.channels[i]) = channel_number }
    IN IF found = {} THEN NoName
       ELSE w.channels[CHOOSE i \in found : \A j \in found : i <= j]

\* channels_data::encode_to_mrl.
encode_to_mrl(channel_name) == << "dvb", channel_name >>

\* preferences::set_last_channel(channel_name, true).
set_last_channel(w, channel_name) == [w EXCEPT !.last.persisted = channel_name]

\* dialogs::display_an_error_dialog.
display_an_error_dialog(w, message) == [w EXCEPT !.last.error = message]

\* GStreamer engine of the playback window: stop(), set_mrl(), play().
engine_stop(w) == [w EXCEPT !.frontend_window.playing = FALSE]

engine_set_mrl(w, mrl) == [w EXCEPT !.frontend_window.mrl = mrl]

engine_play(w) == [w EXCEPT !.frontend_window.playing = TRUE]

\* get_active_text(): the name in the active row, None without an active row.
get_active_text(w) ==
    IF w.channel_selector = NoActive \/ w.channel_selector >= Len(w.channels)
    THEN NoName
    ELSE w.channels[w.channel_selector + 1]

\* FrontendWindow::new(control_window_button) returning Ok: a window whose two
\* selectors show the coordinator's channel and whose engine plays it.
FrontendWindow_new(w) ==
    [some |-> TRUE,
     channel_selector |-> w.channel_selector,
     fullscreen_channel_selector |-> w.channel_selector,
     playing |-> TRUE,
     mrl |-> encode_to_mrl(get_active_text(w)),
     title |-> << "Me TV", get_active_text(w) >>,
     volume |-> MaxVolume]

\* ------------------------------------------------------------- selectors
\* The three synchronised selectors: "cs" the coordinator's channel_selector,
\* "fe" the window's channel_selector, "fs" its fullscreen_channel_selector.
get_active(w, which) ==
    CASE which = "cs" -> w.channel_selector
      [] which = "fe" -> w.frontend_window.channel_selector
      [] which = "fs" -> w.frontend_window.fullscreen_channel_selector

put_active(w, which, index) ==
    CASE which = "cs" -> [w EXCEPT !.channel_selector = index]
      [] which = "fe" -> [w EXCEPT !.frontend_window.channel_selector = index]
      [] which = "fs" ->
           [w EXCEPT !.frontend_window.fullscreen_channel_selector = index]

\* Whether every selector of the coordinator reports index i.
Synced(w, i) ==
    /\ w.channel_selector = i
    /\ w.frontend_window.some =>
         /\ w.frontend_window.channel_selector = i
         /\ w.frontend_window.fullscreen_channel_selector = i

RECURSIVE set_channel_index(_, _)

\* Lines 166-194 of on_channel_changed: with the toggle active, stop the engine
\* and put the coordinator's channel name into the window title.
stop_and_retitle(w) ==
    IF ~w.frontend_button THEN w
    ELSE IF get_active_text(w) = NoName THEN Panic(w)
    ELSE [engine_stop(w) EXCEPT
            !.frontend_window.title = << "Me TV", get_active_text(w) >>]

\* Lines 196-198: hand the engine the selected channel and persist its name.
tune_and_persist(w) ==
    IF w.panicked THEN w
    ELSE IF get_active_text(w) = NoName THEN Panic(w)
    ELSE set_last_channel(
           engine_set_mrl(
             [w EXCEPT !.last.tuned_playing =
                         @ \/ (w.frontend_button /\ w.frontend_window.playing)],
             encode_to_mrl(get_active_text(w))),
           get_active_text(w))

\* Lines 199-202: play again when the toggle was active on entry.
resume(w, status) ==
    IF status /\ ~w.panicked THEN engine_play(w) ELSE w

\* Mutant: the selectors are put to the first row whatever row was reported.
on_channel_changed_resets(w, channel_index) ==
    IF w.panicked THEN w
    ELSE IF ~w.frontend_window.some
         THEN [w EXCEPT !.last.occ = channel_index]
    ELSE resume(
           tune_and_persist(
             set_channel_index(
               stop_and_retitle([w EXCEPT !.last.occ = channel_index]), 0)),
           w.frontend_button)

\* Callback for an observed channel change.
on_channel_changed(w, channel_index) ==
    IF w.panicked THEN w
    ELSE IF ~w.frontend_window.some
         THEN [w EXCEPT !.last.occ = channel_index]
    ELSE resume(
           tune_and_persist(
             set_channel_index(
               stop_and_retitle([w EXCEPT !.last.occ = channel_index]),
               channel_index)),
           w.frontend_button)

\* The changed callback of a selector of the playback window: it reports the
\* selector's row to the coordinator's on_channel_changed.
frontend_window_selector_changed(w, which) ==
    IF get_active(w, which) = NoActive THEN Panic(w)
    ELSE on_channel_changed(w, get_active(w, which))

\* The connect_changed callback of a selector; the coordinator's is
\* on_channel_changed(&c_w_b, c_w_b.channel_selector.get_active().unwrap()).
selector_changed(w, which) ==
    IF which # "cs" THEN frontend_window_selector_changed(w, which)
    ELSE IF get_active(w, which) = NoActive THEN Panic(w)
    ELSE on_channel_changed(w, get_active(w, which))

\* The selector after GTK made row `index` the active one: no row is active
\* when the model has no such row.
activate_row(w, which, index) ==
    put_active([w EXCEPT !.writes = @ + 1, !.notifs = @ + 1,
                         !.written = @ \cup {which},
                         !.last.rewritten = @ \/ which \in w.written],
               which,
               IF index < Len(w.channels) THEN index ELSE NoActive)

\* gtk::ComboBox::set_active(Some(index)): nothing happens when that row is
\* the active one already; otherwise the row becomes active and "changed" is
\* emitted, which runs the connected callback before set_active returns.
set_active(w, which, index) ==
    IF w.panicked THEN w
    ELSE IF get_active(w, which) = index THEN [w EXCEPT !.writes = @ + 1]
    ELSE selector_changed(activate_row(w, which, index), which)

\* Mutant: the selector is written without comparing it first.
sync_selector_always_writes(w, which, channel_index) ==
    IF w.panicked \/ (which # "cs" /\ ~w.frontend_window.some) THEN w
    ELSE IF get_active(w, which) = NoActive THEN Panic(w)
    ELSE set_active(w, which, channel_index)

\* One selector's step of set_channel_index: read it, write it if it differs.
\* The window's selectors are only touched when a window is linked.
sync_selector(w, which, channel_index) ==
    IF w.panicked \/ (which # "cs" /\ ~w.frontend_window.some) THEN w
    ELSE IF get_active(w, which) = NoActive THEN Panic(w)
    ELSE IF get_active(w, which) # channel_index
         THEN set_active(w, which, channel_index)
    ELSE w

\* set_channel_index(channel_index) returns: note what the selectors report.
sci_returned(w, channel_index) ==
    IF w.panicked THEN w
    ELSE [w EXCEPT !.last.sci = channel_index,
                   !.last.sci_ok = @ /\ Synced(w, channel_index)]

\* Mutant: the fullscreen selector is forgotten.
set_channel_index_skips_fullscreen(w, channel_index) ==
    sci_returned(
      sync_selector(sync_selector(w, "cs", channel_index), "fe", channel_index),
      channel_index)

\* Set the state of all the channel control widgets.
set_channel_index(w, channel_index) ==
    sci_returned(
      sync_selector(
        sync_selector(
          sync_selector(w, "cs", channel_index),
          "fe", channel_index),
        "fs", channel_index),
      channel_index)

\* A window selector's step of reset_active_channel.
reset_selector(w, which) ==
    IF w.frontend_window.some THEN set_active(w, which, 0) ELSE w

\* Set the active channel to index 0.
reset_active_channel(w) ==
    reset_selector(reset_selector(set_active(w, "cs", 0), "fe"), "fs")

\* --------------------------------------------------------------- toggle
\* The message of the two panic! calls of toggle_button.
Inconsistent == "Inconsistent state of frontend,"

\* Mutant: the window is linked although its construction failed.
toggle_button_links_failed_window(w, engine_ok) ==
    IF w.frontend_button
    THEN IF w.loaded
         THEN IF w.frontend_window.some
              THEN Panic([w EXCEPT !.last.fatal = Inconsistent])
              ELSE IF ~engine_ok
                   THEN display_an_error_dialog(
                          [w EXCEPT !.frontend_window =
                             [FrontendWindow_new(w) EXCEPT !.playing = FALSE]],
                          "no engine")
              ELSE [w EXCEPT !.frontend_window = FrontendWindow_new(w),
                             !.live = @ + 1, !.last.created = TRUE]
         ELSE w
    ELSE IF w.frontend_window.some
         THEN [w EXCEPT !.frontend_window = NoWindow, !.live = @ - 1,
                        !.last.released = TRUE]
         ELSE Panic([w EXCEPT !.last.fatal = Inconsistent])

\* Toggle the button: called after the change of state of frontend_button.
\* engine_ok is whether FrontendWindow::new returns Ok.
toggle_button(w, engine_ok) ==
    IF w.frontend_button
    THEN IF w.loaded
         THEN IF ~engine_ok
              THEN display_an_error_dialog(w, "no engine")
              ELSE IF w.frontend_window.some
                   THEN Panic([w EXCEPT
                                 !.frontend_window = FrontendWindow_new(w),
                                 !.live = @ + 1, !.last.created = TRUE,
                                 !.last.fatal = Inconsistent])
              ELSE [w EXCEPT !.frontend_window = FrontendWindow_new(w),
                             !.live = @ + 1, !.last.created = TRUE]
         ELSE w
    ELSE IF w.frontend_window.some
         THEN [w EXCEPT !.frontend_window = NoWindow, !.live = @ - 1,
                        !.last.released = TRUE]
         ELSE Panic([w EXCEPT !.last.fatal = Inconsistent])

\* The connect_toggled callback of frontend_button.
frontend_button_toggled(w, engine_ok) ==
    IF w.loaded THEN toggle_button(w, engine_ok)
    ELSE display_an_error_dialog(w, "no channel list")

\* -------------------------------------------------------- numeric entry
\* digit.to_string(): the decimal characters of a digit, here one character.
digit_to_string(digit) == << digit >>

\* str::parse::<u16>(): ParseErr for the empty string and on overflow.
RECURSIVE parse_digits(_, _)
parse_digits(text, acc) ==
    IF text = << >> THEN acc
    ELSE IF acc * 10 + Head(text) >= U16Range THEN ParseErr
    ELSE parse_digits(Tail(text), acc * 10 + Head(text))

parse_u16(text) == IF text = << >> THEN ParseErr ELSE parse_digits(text, 0)

\* Mutant: the loop does not break at the match and runs to the last row.
RECURSIVE find_in_model_no_break(_, _, _)
find_in_model_no_break(model, channel_name, index) ==
    IF index + 1 >= Len(model)
    THEN IF \E i \in 1 .. Len(model) : model[i] = channel_name
         THEN index ELSE NoActive
    ELSE find_in_model_no_break(model, channel_name, index + 1)

\* The search loop over the rows of channels_data_sorter: the index of the
\* first row holding channel_name, NoActive when no row does.
RECURSIVE find_in_model(_, _, _)
find_in_model(model, channel_name, index) ==
    IF model[index + 1] = channel_name THEN index
    ELSE IF index + 1 >= Len(model) THEN NoActive
    ELSE find_in_model(model, channel_name, index + 1)

\* let fraction = |s| 1.0 - s.len() / max_length, in units of 1/max_length.
fraction(text) == max_length - Len(text)

\* Mutant: set_progress_fraction(1.0) is left out of the clearing.
clear_entry_keeps_progress(w, channel_name) ==
    IF w.panicked THEN w
    ELSE [w EXCEPT !.entry_text = << >>,
                   !.dialog_visible = FALSE,
                   !.last.name = channel_name]

\* Lines 297-299: clear the entry, reset its progress, hide the dialog.
clear_entry(w, channel_name) ==
    IF w.panicked THEN w
    ELSE [w EXCEPT !.entry_text = << >>,
                   !.entry_progress = max_length,
                   !.dialog_visible = FALSE,
                   !.last.name = channel_name]

\* Lines 275-294: select the row of channel_name in every selector.
select_channel_name(w, channel_name) ==
    IF find_in_model(w.channels, channel_name, 0) = NoActive THEN Panic(w)
    ELSE set_channel_index(w, find_in_model(w.channels, channel_name, 0))

\* Mutant: an unmapped number selects the first channel.
change_channel_to_number_falls_back(w, channel_name) ==
    clear_entry(IF channel_name = NoName THEN set_channel_index(w, 0)
                ELSE select_channel_name(w, channel_name),
                channel_name)

\* Lines 274-300, for the parsed number.
change_channel_to_number(w, channel_name) ==
    clear_entry(IF channel_name = NoName THEN w
                ELSE select_channel_name(w, channel_name),
                channel_name)

\* Change the channel to the one collected by the Entry.
change_channel_after_keystrokes(w, channel_number) ==
    IF parse_u16(channel_number) = ParseErr
    THEN Panic([w EXCEPT !.last.text = channel_number])
    ELSE change_channel_to_number(
           [w EXCEPT !.last.text = channel_number],
           get_channel_name_of_logical_channel_number(
             w, parse_u16(channel_number)))

\* Lines 321-328: show the dialog, append the digit, set the progress.  Every
\* pending timer has now seen a digit arrive after it was armed.
append_digit(w, digit) ==
    [w EXCEPT !.dialog_visible = TRUE,
              !.entry_text = @ \o digit_to_string(digit),
              !.entry_progress = fraction(w.entry_text \o digit_to_string(digit)),
              !.timers = [i \in 1 .. Len(@) |-> [@[i] EXCEPT !.stale = TRUE]]]

\* Mutant: the length test is text.len() > max_length.
commit_or_arm_past_max_length(w) ==
    IF Len(w.entry_text) > max_length
    THEN change_channel_after_keystrokes(
           [w EXCEPT !.last.commit = "length"], w.entry_text)
    ELSE [w EXCEPT
            !.timers = Append(@, [text |-> w.entry_text, stale |-> FALSE]),
            !.last.armed = TRUE]

\* Lines 329-343: commit at max_length, else arm a timer holding the text.
commit_or_arm(w) ==
    IF Len(w.entry_text) >= max_length
    THEN change_channel_after_keystrokes(
           [w EXCEPT !.last.commit = "length"], w.entry_text)
    ELSE [w EXCEPT
            !.timers = Append(@, [text |-> w.entry_text, stale |-> FALSE]),
            !.last.armed = TRUE]

\* Process a numeric keystroke, most likely from a remote.
process_numeric_keystroke(w, digit) == commit_or_arm(append_digit(w, digit))

\* Mutant: the closure commits the entry's text without comparing it.
timeout_closure_unguarded(w, timer) ==
    change_channel_after_keystrokes(
      [w EXCEPT !.last.stale = timer.stale, !.last.commit = "timeout"],
      w.entry_text)

\* The closure given to glib::timeout_add_seconds_local(3, ..), run once.
timeout_closure(w, timer) ==
    IF w.entry_text = timer.text
    THEN change_channel_after_keystrokes(
           [w EXCEPT !.last.stale = timer.stale, !.last.commit = "timeout"],
           timer.text)
    ELSE [w EXCEPT !.last.stale = timer.stale]

\* ------------------------------------------------------------ keystrokes
\* process_targetted_keystroke acts on a press of this key code.
pressed(w, code) == [w EXCEPT !.last.key = code]

\* process_targetted_keystroke does nothing with the keystroke.
ignored(w) == [w EXCEPT !.last.ignored = TRUE]

\* Lines 212-215: select the next row; there is no test against the row count.
channel_up(w) ==
    IF w.channel_selector = NoActive THEN Panic(w)
    ELSE set_active(w, "cs", w.channel_selector + 1)

\* Mutant: the index > 0 test is missing; index - 1 is then no row.
channel_down_no_low_clamp(w) ==
    IF w.channel_selector = NoActive THEN Panic(w)
    ELSE set_active(w, "cs",
                    IF w.channel_selector > 0 THEN w.channel_selector - 1
                    ELSE U16Range)

\* Lines 220-224: select the previous row unless the first one is selected.
channel_down(w) ==
    IF w.channel_selector = NoActive THEN Panic(w)
    ELSE IF w.channel_selector > 0
         THEN set_active(w, "cs", w.channel_selector - 1)
    ELSE w

\* button.set_value of the window's volume button.
set_value(w, volume) == [w EXCEPT !.frontend_window.volume = volume]

\* Lines 229-241: one increment up, clamped to the maximum.
volume_up(w) ==
    IF ~w.frontend_window.some THEN w
    ELSE IF w.frontend_window.volume + step_increment < MaxVolume
         THEN set_value(w, w.frontend_window.volume + step_increment)
    ELSE set_value(w, MaxVolume)

\* Lines 246-258: one increment down, clamped to the minimum.
volume_down(w) ==
    IF ~w.frontend_window.some THEN w
    ELSE IF w.frontend_window.volume - step_increment > volume_lower
         THEN set_value(w, w.frontend_window.volume - step_increment)
    ELSE set_value(w, volume_lower)

\* Mutant: a digit key is processed for every value above 0, repeats too.
numeric_key_on_repeat(w, keystroke, value) ==
    IF value > 0
    THEN process_numeric_keystroke(pressed(w, keystroke.code), keystroke.digit)
    ELSE ignored(w)

\* Lines 263-265: a digit key is processed on tk.value == 1 only.
numeric_key(w, keystroke, value) ==
    IF value = 1
    THEN process_numeric_keystroke(pressed(w, keystroke.code), keystroke.digit)
    ELSE ignored(w)

\* Process a targetted keystroke: keystroke is the key code, with the digit
\* of a KEY_NUMERIC_<digit> code; value is tk.value.
process_targetted_keystroke(w, keystroke, value) ==
    CASE keystroke.code = "KEY_CHANNELUP" ->
           IF value > 0 THEN channel_up(pressed(w, keystroke.code))
           ELSE ignored(w)
      [] keystroke.code = "KEY_CHANNELDOWN" ->
           IF value > 0 THEN channel_down(pressed(w, keystroke.code))
           ELSE ignored(w)
      [] keystroke.code = "KEY_VOLUMEUP" ->
           IF value > 0 THEN volume_up(pressed(w, keystroke.code))
           ELSE ignored(w)
      [] keystroke.code = "KEY_VOLUMEDOWN" ->
           IF value > 0 THEN volume_down(pressed(w, keystroke.code))
           ELSE ignored(w)
      [] keystroke.code = "KEY_NUMERIC" -> numeric_key(w, keystroke, value)
      [] OTHER -> ignored(w)

\* ------------------------------------------------------- worker pipeline
\* The front ends that appear and disappear: adapter0/frontend0 and
\* adapter1/frontend0.
FrontendIds == {"a0f0", "a1f0"}

\* What frontend_manager::run holds between two messages.
NoMessage == [kind |-> "none", fei |-> ""]

\* Mutant: the channel hands the newest message out first.
send_first(queue, message) == << message >> \o queue

\* Sender::send on a channel made by std::sync::mpsc::channel(): the message
\* goes behind the messages in flight; recv() takes the one in front.
send(queue, message) == Append(queue, message)

\* The threads have just been spawned: both channels are empty.
PipelineIdle ==
    /\ to_fem = << >>
    /\ to_cw = << >>
    /\ events = 0
    /\ fem_msg = NoMessage
    /\ frontends = {}
    /\ sent = << >>
    /\ received = << >>

\* inotify_daemon::run(to_fem): a device node appears or disappears.
WatcherSends ==
    /\ events < MaxEvents
    /\ \E kind \in {"appeared", "disappeared"}, fei \in FrontendIds :
         to_fem' = send(to_fem, [kind |-> kind, fei |-> fei])
    /\ events' = events + 1
    /\ UNCHANGED << to_cw, fem_msg, frontends, sent, received, coordinator >>

\* frontend_manager::run(from_in, to_cw): recv() on the watcher's channel.
ManagerReceives ==
    /\ fem_msg = NoMessage
    /\ to_fem # << >>
    /\ fem_msg' = Head(to_fem)
    /\ to_fem' = Tail(to_fem)
    /\ UNCHANGED << to_cw, events, frontends, sent, received, coordinator >>

\* The availability change the event in hand amounts to, if any.
availability_change(message, known) ==
    IF message.kind = "appeared" /\ message.fei \notin known
    THEN [kind |-> "added", fei |-> message.fei]
    ELSE IF message.kind = "disappeared" /\ message.fei \in known
         THEN [kind |-> "removed", fei |-> message.fei]
    ELSE NoMessage

\* frontend_manager::run: the inventory is brought up to date and a change of
\* it is sent to the control window; an event that changes nothing is dropped.
ManagerPublishes ==
    /\ fem_msg # NoMessage
    /\ fem_msg' = NoMessage
    /\ IF availability_change(fem_msg, frontends) = NoMessage
       THEN UNCHANGED << to_cw, frontends, sent >>
       ELSE /\ to_cw' = send(to_cw, availability_change(fem_msg, frontends))
            /\ sent' = Append(sent, availability_change(fem_msg, frontends))
            /\ frontends' = IF fem_msg.kind = "appeared"
                            THEN frontends \cup {fem_msg.fei}
                            ELSE frontends \ {fem_msg.fei}
    /\ UNCHANGED << to_fem, events, received, coordinator >>

\* control_window::message_listener(from_fem): recv() on the manager's channel.
ListenerReceives ==
    /\ to_cw # << >>
    /\ received' = Append(received, Head(to_cw))
    /\ to_cw' = Tail(to_cw)
    /\ UNCHANGED << to_fem, events, fem_msg, frontends, sent, coordinator >>

\* ------------------------------------------------------------ the program
\* ControlWindowButton::new, for a list that is loaded already or not yet.
Init ==
    /\ \/ loaded = TRUE /\ channels \in ChannelLists
       \/ loaded = FALSE /\ channels = << NoChannelsRow >>
    /\ frontend_button = FALSE
    /\ channel_selector = 0
    /\ frontend_window = NoWindow
    /\ entry_text = << >>
    /\ entry_progress = max_length
    /\ dialog_visible = FALSE
    /\ timers = << >>
    /\ live = 0
    /\ panicked = FALSE
    /\ last = NoObs
    /\ PipelineIdle

\* The user clicks the toggle: GTK flips its state, then emits "toggled".
Toggled ==
    /\ ~panicked
    /\ \E engine_ok \in BOOLEAN :
         Store(frontend_button_toggled(
                 [Cur EXCEPT !.frontend_button = ~@], engine_ok))

\* The user picks a row in one of the selectors.
SelectChannel ==
    /\ ~panicked
    /\ \E which \in {"cs", "fe", "fs"}, index \in 0 .. Len(channels) - 1 :
         /\ which # "cs" => frontend_window.some
         /\ Store(set_active(Cur, which, index))

\* A channel-up key event of the remote control.
ChannelUpKey ==
    /\ ~panicked
    /\ \E value \in KeyValues :
         Store(process_targetted_keystroke(
                 Cur, [code |-> "KEY_CHANNELUP", digit |-> 0], value))

\* A channel-down key event of the remote control.
ChannelDownKey ==
    /\ ~panicked
    /\ \E value \in KeyValues :
         Store(process_targetted_keystroke(
                 Cur, [code |-> "KEY_CHANNELDOWN", digit |-> 0],
                 value))

\* A volume-up key event of the remote control.
VolumeUpKey ==
    /\ ~panicked
    /\ \E value \in KeyValues :
         Store(process_targetted_keystroke(
                 Cur, [code |-> "KEY_VOLUMEUP", digit |-> 0], value))

\* A volume-down key event of the remote control.
VolumeDownKey ==
    /\ ~panicked
    /\ \E value \in KeyValues :
         Store(process_targetted_keystroke(
                 Cur, [code |-> "KEY_VOLUMEDOWN", digit |-> 0], value))

\* A digit key event.  At most MaxTimers timers are pending.
NumericKey ==
    /\ ~panicked
    /\ \E digit \in Digits, value \in KeyValues :
         /\ value = 1 /\ Len(entry_text) + 1 < max_length =>
              Len(timers) < MaxTimers
         /\ Store(process_targetted_keystroke(
                    Cur, [code |-> "KEY_NUMERIC", digit |-> digit], value))

\* A key event with a code the coordinator has no arm for, here KEY_MUTE.
OtherKey ==
    /\ ~panicked
    /\ \E value \in KeyValues :
         Store(process_targetted_keystroke(
                 Cur, [code |-> "KEY_MUTE", digit |-> 0], value))

\* The oldest pending timer expires: its closure runs once (Continue(false)).
TimerFires ==
    /\ ~panicked
    /\ timers # << >>
    /\ Store(timeout_closure([Cur EXCEPT !.timers = Tail(@)],
                             Head(timers)))

\* The control window fills the channel store from a channels file and resets
\* every coordinator's selection.
LoadChannels ==
    /\ ~panicked
    /\ ~loaded
    /\ \E list \in ChannelLists :
         Store(reset_active_channel(
                 [Cur EXCEPT !.loaded = TRUE, !.channels = list]))

\* The control window finds no channels file: the store holds the one row
\* saying so, and every coordinator's selection is reset.
UnloadChannels ==
    /\ ~panicked
    /\ loaded
    /\ Store(reset_active_channel(
               [Cur EXCEPT !.loaded = FALSE,
                                     !.channels = << NoChannelsRow >>]))

Next ==
    \/ Toggled
    \/ SelectChannel
    \/ ChannelUpKey
    \/ ChannelDownKey
    \/ VolumeUpKey
    \/ VolumeDownKey
    \/ NumericKey
    \/ OtherKey
    \/ TimerFires
    \/ LoadChannels
    \/ UnloadChannels

Spec == Init /\ [][Next]_vars

\* The three worker threads of main, running beside a coordinator at rest.
PipelineInit == Init /\ ~loaded

PipelineNext ==
    \/ WatcherSends
    \/ ManagerReceives
    \/ ManagerPublishes
    \/ ListenerReceives

PipelineSpec == PipelineInit /\ [][PipelineNext]_vars

\* ================================================================ claims

\* C1: once a toggle transition has been handled, the coordinator holds a
\* playback window reference if and only if its toggle is active.
C1_ToggleWindowOneToOne == frontend_window.some <=> frontend_button

\* C2: a timer commits only if no digit was received between its arming and
\* its firing; a timer that saw a later digit arrive never commits.
C2_StaleTimerNeverCommits == ~(last.commit = "timeout" /\ last.stale)

\* C3: after set_channel_index(i) returns, the coordinator's selector and, with
\* a playback window linked, the window's selector and its fullscreen selector
\* all report i; and they still do when the handler that called it ends.
C3_SelectorsSynchronised ==
    /\ last.sci_ok
    /\ last.sci # NoActive /\ ~panicked =>
         /\ channel_selector = last.sci
         /\ frontend_window.some =>
              /\ frontend_window.channel_selector = last.sci
              /\ frontend_window.fullscreen_channel_selector = last.sci

\* A commit by length reached a channel, with a window linked, through the
\* changed callbacks of the selectors.
C3_Witness ==
    /\ last.sci # NoActive
    /\ last.commit = "length"
    /\ last.persisted # NoName
    /\ frontend_window.some
    /\ ~panicked

\* C4: once a channel list is loaded the selected channel index stays in
\* [0, channelCount).
C4_IndexInRange == loaded => channel_selector \in 0 .. Len(channels) - 1

\* C5: a digit press that brings the buffer to max_length commits within its
\* own handling, so that the buffer never rests at max_length digits; after
\* that commit the buffer is empty, the progress indicator is 1.0, the entry
\* surface is hidden and no timer was armed.
C5_CommitByLength ==
    /\ Len(entry_text) < max_length
    /\ last.commit = "length" =>
         /\ Len(last.text) = max_length
         /\ entry_text = << >>
         /\ entry_progress = max_length
         /\ ~dialog_visible
         /\ ~last.armed

\* A third digit has just been handled.
C5_Witness == last.commit = "length" /\ ~panicked /\ timers # << >>

\* C6: a non-empty buffer is never left without a pending timer that will
\* commit it: while digits are buffered the event loop is alive and the timer
\* armed by the last digit is pending, holds exactly the buffered digits and
\* has seen no later digit.
C6_BufferedDigitsAwaitTheirTimer ==
    entry_text # << >> =>
        /\ ~panicked
        /\ timers # << >>
        /\ timers[Len(timers)].text = entry_text
        /\ ~timers[Len(timers)].stale

\* C7: after an activation without a channel list the error is reported, no
\* playback window exists and the toggle is inactive.
C7_NoListActivationReverted ==
    last.error = "no channel list" /\ ~last.created => ~frontend_button

\* C8: at most one playback window is live at any time; one is created only
\* while a toggle activation is handled and released only while a toggle
\* deactivation is handled.
C8_AtMostOneEngine ==
    /\ live <= 1
    /\ last.created => frontend_button
    /\ last.released => ~frontend_button

\* C9: right after set_channel_index(i) has returned, a second
\* set_channel_index(i) makes no set_active call and raises no "changed".
C9_SetChannelIndexIdempotent ==
    last.sci # NoActive /\ ~panicked =>
        /\ set_channel_index(Cur, last.sci).writes = 0
        /\ set_channel_index(Cur, last.sci).notifs = 0

\* A commit by timeout reached a channel, with a window linked, through the
\* changed callbacks of the selectors.
C9_Witness ==
    /\ last.sci # NoActive
    /\ last.commit = "timeout"
    /\ last.persisted # NoName
    /\ frontend_window.some
    /\ ~panicked

\* The decimal value of a digit string, leading zeros ignored.
RECURSIVE DecimalValue(_)
DecimalValue(text) ==
    IF text = << >> THEN 0
    ELSE 10 * DecimalValue(SubSeq(text, 1, Len(text) - 1)) + text[Len(text)]

\* The rows of the loaded list whose channel carries the number typed.
RowsOfNumber(text) ==
    { i \in 0 .. Len(channels) - 1 :
        /\ loaded
        /\ DecimalValue(text) > 0
        /\ logical_channel_number(channels[i + 1]) = DecimalValue(text) }

\* C10: when the buffered digits, read as a decimal number, are the number of
\* a channel of the list, the commit selects exactly that channel's row, in
\* every selector.
C10_CommitSelectsMappedRow ==
    last.commit # "" /\ RowsOfNumber(last.text) # {} =>
        /\ ~panicked
        /\ channel_selector \in RowsOfNumber(last.text)
        /\ channels[channel_selector + 1] = last.name
        /\ frontend_window.some =>
             /\ frontend_window.channel_selector = channel_selector
             /\ frontend_window.fullscreen_channel_selector = channel_selector

\* Digits with a leading zero have been committed to a row other than the
\* first.
C10_Witness ==
    /\ last.commit # ""
    /\ RowsOfNumber(last.text) # {}
    /\ Head(last.text) = 0
    /\ channel_selector > 0

\* C11: with the watcher, the inventory manager and the listener running as
\* concurrent threads joined by the two channels, the control surface receives
\* the availability changes in exactly the order the inventory manager sent
\* them, whatever the interleaving: none lost, none twice, none out of order.
C11_AvailabilityOrderKept == sent = received \o to_cw

\* Different changes have been received while others were still in flight on
\* both channels.
C11_Witness ==
    /\ Len(received) >= 2
    /\ received[1] # received[2]
    /\ to_cw # << >>
    /\ to_fem # << >>

\* C12: whenever toggle_button handles a deactivation a playback window
\* reference exists: no sequence of clicks, engine-creation results and list
\* loads reaches a panic!("Inconsistent state of frontend,").
C12_DeactivationImpliesWindow == last.fatal # Inconsistent

\* C13: every on_channel_changed(newIndex), with the toggle active or not and
\* with a playback window linked or not, runs set_channel_index(newIndex) and
\* persists the name of the newly selected channel as the last channel.
C13_EveryChangePersisted ==
    last.occ # NoActive /\ ~panicked =>
        /\ last.sci = last.occ
        /\ last.persisted # NoName
        /\ last.persisted = channels[last.occ + 1]

\* C14: with the toggle active and a window linked, a channel change stops the
\* engine before it sets the locator and plays only after it: set_mrl never
\* reaches a playing engine, also when on_channel_changed is re-entered from
\* the selectors; afterwards the engine plays the newly selected channel.
C14_EngineStoppedWhileTuned ==
    /\ ~last.tuned_playing
    /\ last.occ # NoActive /\ frontend_button /\ frontend_window.some
         /\ ~panicked =>
           /\ frontend_window.playing
           /\ frontend_window.mrl = encode_to_mrl(channels[last.occ + 1])

\* C15: when the toggle is activated with the list loaded and the construction
\* of the playback window fails, the error is reported, no window reference is
\* stored (an empty reference stays empty) and the toggle is left active.
C15_EngineFailureLeavesToggleUnlinked ==
    [][last'.error = "no engine" =>
         /\ loaded /\ ~frontend_button /\ frontend_button'
         /\ ~last'.created
         /\ frontend_window' = frontend_window
         /\ ~frontend_window.some => ~frontend_window'.some]_vars

\* The construction failed on the first activation: active, and no window.
C15_Witness ==
    /\ last.error = "no engine"
    /\ frontend_button
    /\ ~frontend_window.some
    /\ live = 0

\* C16: a commit, by length or by timeout, of a number that no channel of the
\* list carries leaves the index of every selector as it was, and still clears
\* the buffer, resets the progress indicator to 1.0 and hides the entry surface.
C16_UnmappedNumberDiscarded ==
    [][last'.commit # "" /\ RowsOfNumber(last'.text) = {} =>
         /\ ~panicked'
         /\ channel_selector' = channel_selector
         /\ frontend_window'.channel_selector = frontend_window.channel_selector
         /\ frontend_window'.fullscreen_channel_selector =
              frontend_window.fullscreen_channel_selector
         /\ entry_text' = << >>
         /\ entry_progress' = max_length
         /\ ~dialog_visible']_vars

\* A timer committed digits that are no channel's number while a row other
\* than the first was selected and a window was linked.
C16_Witness ==
    /\ last.commit = "timeout"
    /\ RowsOfNumber(last.text) = {}
    /\ last.name = NoName
    /\ channel_selector > 0
    /\ frontend_window.some

\* C17: resolve-and-commit is only ever entered, from the length trigger or
\* from a timer, with 1 to max_length decimal digits: never with an empty
\* buffer, so that parse::<u16>() does not fail; and the buffer never holds
\* more than max_length digits.
C17_CommitPrecondition ==
    /\ Len(entry_text) <= max_length
    /\ last.commit # "" =>
         /\ Len(last.text) \in 1 .. max_length
         /\ \A i \in 1 .. Len(last.text) : last.text[i] \in 0 .. 9
         /\ parse_u16(last.text) # ParseErr
         /\ parse_u16(last.text) = DecimalValue(last.text)

\* A timer committed two digits while other timers were pending.
C17_Witness ==
    /\ last.commit = "timeout"
    /\ Len(last.text) = 2
    /\ timers # << >>
    /\ ~panicked

\* C18: one selector change, with the changed callback of each of the three
\* selectors calling on_channel_changed and so set_channel_index, sets off a
\* finite cascade in which no selector is given a new row twice, and ends with
\* every selector at the new index.
C18_FanOutTerminates ==
    /\ ~last.rewritten
    /\ last.occ # NoActive /\ ~panicked =>
         /\ channel_selector = last.occ
         /\ frontend_window.some =>
              /\ frontend_window.channel_selector = last.occ
              /\ frontend_window.fullscreen_channel_selector = last.occ
              /\ last.sci = last.occ

\* A row other than the first, picked while a window was linked and the toggle
\* active, has gone through the re-entrant callbacks to every selector.
C18_Witness ==
    /\ last.occ > 0
    /\ last.commit = ""
    /\ frontend_window.some
    /\ frontend_button
    /\ last.tuned_playing
    /\ ~panicked

\* C19: a channel-down press (value > 0) takes the coordinator's selector from
\* index i > 0 to i - 1 and leaves it at 0 when it is 0: the index never goes
\* below 0.
C19_ChannelDownClampedAtZero ==
    [][last'.key = "KEY_CHANNELDOWN" =>
         /\ ~panicked'
         /\ channel_selector > 0 => channel_selector' = channel_selector - 1
         /\ channel_selector = 0 => channel_selector' = 0
         /\ channel_selector' >= 0]_vars

\* A channel-down press has moved all three selectors to the first row.
C19_Witness ==
    /\ last.key = "KEY_CHANNELDOWN"
    /\ last.occ = 0
    /\ channel_selector = 0
    /\ frontend_window.some
    /\ frontend_window.fullscreen_channel_selector = 0

\* The keystrokes C20 is about, handled: a release of any key, a digit key
\* with a value other than 1, a key code without an arm.
IgnoredKeystroke ==
    \E code \in {"KEY_CHANNELUP", "KEY_CHANNELDOWN", "KEY_VOLUMEUP",
                 "KEY_VOLUMEDOWN", "KEY_NUMERIC", "KEY_MUTE"},
       digit \in Digits, value \in KeyValues :
         /\ \/ value = 0
            \/ code = "KEY_NUMERIC" /\ value # 1
            \/ code = "KEY_MUTE"
         /\ ~panicked
         /\ Store(process_targetted_keystroke(
                    Cur, [code |-> code, digit |-> digit], value))

\* C20: a key release (value 0) of any key code, a digit key with a value
\* other than 1, and a key code that is not recognised leave the selector
\* index, the entry's buffer and progress, the toggle, the playback window
\* reference and the volume as they are, and arm no timer.
C20_IgnoredKeystrokesChangeNothing ==
    [][IgnoredKeystroke =>
         /\ last'.ignored
         /\ channel_selector' = channel_selector
         /\ entry_text' = entry_text
         /\ entry_progress' = entry_progress
         /\ dialog_visible' = dialog_visible
         /\ frontend_button' = frontend_button
         /\ frontend_window' = frontend_window
         /\ timers' = timers
         /\ ~panicked']_vars

\* A keystroke was dropped while digits were buffered, a window was linked and
\* the volume had been turned down.
C20_Witness ==
    /\ last.ignored
    /\ entry_text # << >>
    /\ timers # << >>
    /\ frontend_button
    /\ frontend_window.some
    /\ frontend_window.volume < MaxVolume
    /\ channel_selector > 0

\* C21: between two handlers the progress indicator is 1 - length/max_length
\* of the buffer, so it is 1.0 exactly when the buffer is empty, and the buffer
\* holds at most max_length - 1 digits.
C21_ProgressFollowsBuffer ==
    /\ entry_progress = max_length - Len(entry_text)
    /\ entry_progress = max_length <=> entry_text = << >>
    /\ Len(entry_text) <= max_length - 1

\* Two digits rest in the buffer after an earlier commit by length, which had
\* cleared the entry and left its timers pending.
C21_Witness ==
    /\ Len(entry_text) = 2
    /\ entry_progress = 1
    /\ Len(timers) = MaxTimers
    /\ timers[1].stale /\ Len(timers[1].text) = 2
    /\ ~panicked

====
